---- MODULE Spec2Model ----
(***************************************************************************)
(* Global explanation engines of survInterpretability                      *)
(* (src/Lucas/src/global_explaination.py): partial dependence (PDP),       *)
(* permutation feature importance (PFI), accumulated local effects (ALE)   *)
(* and the two unimplemented entry points.                                 *)
(*                                                                         *)
(* Numbers are exact rationals [n, d] in lowest terms (d > 0); the         *)
(* floating point rounding of numpy is not modelled.  A table is a         *)
(* sequence of rows; a feature table's row is a tuple of cells, one per    *)
(* column of Features; a result table's row is a record.                   *)
(***************************************************************************)
EXTENDS Integers, Sequences, FiniteSets, TLC

VARIABLES explainer, feats, surv_labels, pc, call, outcome, ale, pfi, ICE_df

vars == <<explainer, feats, surv_labels, pc, call, outcome, ale, pfi, ICE_df>>

----------------------------------------------------------------------------
(* Exact rational arithmetic *)

Abs(x) == IF x < 0 THEN -x ELSE x

RECURSIVE Gcd(_, _)
Gcd(a, b) == IF b = 0 THEN a ELSE Gcd(b, a % b)

Rat(n, d) ==
  LET g == Gcd(Abs(n), Abs(d))
      s == IF d < 0 THEN -1 ELSE 1
  IN  [n |-> (s * n) \div g, d |-> (s * d) \div g]

R(v) == [n |-> v, d |-> 1]

RAdd(a, b) == Rat(a.n * b.d + b.n * a.d, a.d * b.d)
RSub(a, b) == Rat(a.n * b.d - b.n * a.d, a.d * b.d)
RMul(a, b) == Rat(a.n * b.n, a.d * b.d)
RLt(a, b) == a.n * b.d < b.n * a.d
RLe(a, b) == a.n * b.d <= b.n * a.d
RAbs(a) == [n |-> Abs(a.n), d |-> a.d]

RECURSIVE RSum(_)
RSum(s) == IF s = <<>> THEN R(0) ELSE RAdd(s[1], RSum(Tail(s)))

(* numpy's float division: x / 0 is inf, -inf or nan instead of an error.  *)
(* They are written with denominator 0: 1/0 = inf, -1/0 = -inf, 0/0 = nan. *)
Inf == [n |-> 1, d |-> 0]
NegInf == [n |-> -1, d |-> 0]
NaN == [n |-> 0, d |-> 0]

IsFinite(x) == x.d # 0

NpDivide(a, b) ==
  IF b.n # 0 THEN Rat(a.n * b.d, a.d * b.n)
  ELSE IF a.n > 0 THEN Inf
  ELSE IF a.n < 0 THEN NegInf
  ELSE NaN

----------------------------------------------------------------------------
(* Tables *)

(* A sequence built element by element, as a materialised tuple *)
Tuple(f) == f \o <<>>

Features == <<"x0", "x1">>

HasColumn(name) == \E c \in DOMAIN Features : Features[c] = name
ColIdx(name) == CHOOSE c \in DOMAIN Features : Features[c] = name

Column(df, c) == Tuple([i \in 1..Len(df) |-> df[i][c]])
SetColumn(df, c, vals) ==
  Tuple([i \in 1..Len(df) |-> [df[i] EXCEPT ![c] = vals[i]]])

(* DataFrame.copy(deep=True): a new table holding the same values *)
DeepCopy(df) == Tuple([i \in 1..Len(df) |-> df[i]])

(* DataFrame.sort_values(by=[c]) returns a new table ordered by column c.  *)
(* The default sort is not stable: rows with equal keys come out in the    *)
(* original order (tie = "keep") or not (tie = "flip").                    *)
SortRank(df, c, tie, i) ==
  Cardinality({j \in 1..Len(df) : RLt(df[j][c], df[i][c])})
  + Cardinality({j \in 1..Len(df) :
        /\ df[j][c] = df[i][c]
        /\ IF tie = "keep" THEN j < i ELSE j > i})
  + 1

sort_values(df, c, tie) ==
  LET rank == Tuple([i \in 1..Len(df) |-> SortRank(df, c, tie, i)])
  IN  Tuple([p \in 1..Len(df) |-> df[CHOOSE i \in 1..Len(df) : rank[i] = p]])

(* np.repeat(a, k): each element k times in a row *)
NpRepeat(a, k) == Tuple([j \in 1..(Len(a) * k) |-> a[((j - 1) \div k) + 1]])

(* np.unique on integers: the distinct values in ascending order *)
NpUnique(a) ==
  LET S == {a[i] : i \in DOMAIN a}
  IN  Tuple([p \in 1..Cardinality(S) |->
         CHOOSE v \in S : Cardinality({u \in S : u < v}) = p - 1])

(* a[start::step] *)
Slice(a, start, step) ==
  LET m == IF Len(a) > start THEN ((Len(a) - start - 1) \div step) + 1 ELSE 0
  IN  Tuple([p \in 1..m |-> a[start + (p - 1) * step + 1]])

(* df.groupby([k1, k2]).mean().reset_index(): one row per key pair that    *)
(* occurs, in ascending key order, every other column averaged.            *)
GroupKeys(rows, k1, k2) == {<<rows[i][k1], rows[i][k2]>> : i \in DOMAIN rows}

KeyLess(a, b) == a[1] < b[1] \/ (a[1] = b[1] /\ a[2] < b[2])

GroupMeanOverAllRows(rows, k1, k2, key, col) ==
  LET members == SelectSeq(rows, LAMBDA r : <<r[k1], r[k2]>> = key)
      total == RSum([i \in 1..Len(members) |-> members[i][col]])
  IN  RMul(total, Rat(1, Len(rows)))

GroupMean(rows, k1, k2, key, col) ==
  LET members == SelectSeq(rows, LAMBDA r : <<r[k1], r[k2]>> = key)
      total == RSum([i \in 1..Len(members) |-> members[i][col]])
  IN  RMul(total, Rat(1, Len(members)))

GroupbyMean(rows, k1, k2) ==
  LET keys == GroupKeys(rows, k1, k2)
      cols == IF rows = <<>> THEN {} ELSE (DOMAIN rows[1]) \ {k1, k2}
  IN  Tuple([p \in 1..Cardinality(keys) |->
         LET key == CHOOSE k \in keys :
                      Cardinality({u \in keys : KeyLess(u, k)}) = p - 1
         IN  [f \in cols \cup {k1, k2} |->
                IF f = k1 THEN key[1]
                ELSE IF f = k2 THEN key[2]
                ELSE GroupMean(rows, k1, k2, key, f)]])

Project(rows, cols) ==
  Tuple([i \in 1..Len(rows) |-> [f \in cols |-> rows[i][f]]])

----------------------------------------------------------------------------
(* Outcomes of a call *)

NoOutcome == [kind |-> "none"]
Return(v) == [kind |-> "return", value |-> v]
Raise(exc, msg) == [kind |-> "raise", exc |-> exc, msg |-> msg]

NoLocals == [op |-> "none"]

----------------------------------------------------------------------------
(* The explainer: a reference dataset, its labels (time, event) and the    *)
(* fitted model, here the two weights of the prediction formula.           *)

SmallRowCounts == {3, 11, 12}
LargeRowCounts == {111}
Patterns == {"spread", "const", "few", "skew"}
LargePatterns == {"spread", "few"}
Weights == {<<1, 1>>, <<1, 0>>}

(* Row order of the generated datasets is scrambled, so that sorting by a  *)
(* feature moves rows.                                                     *)
Scramble(i, n) == ((i * 5) % n) + 1

GenX0(pattern, j) ==
  CASE pattern = "spread" -> j - 1
    [] pattern = "const" -> 5
    [] pattern = "few" -> j % 3
    [] pattern = "skew" -> IF j <= 4 THEN 0 ELSE j * j

GenData(pattern, n) ==
  Tuple([i \in 1..n |->
     LET j == Scramble(i, n)
     IN  <<R(GenX0(pattern, j)), R((j * j) % 5)>>])

(* Observed times are distinct, except that in the 12-row datasets two     *)
(* rows share one.                                                         *)
GenLabel(n) ==
  Tuple([i \in 1..n |->
     LET j == Scramble(i, n)
     IN  <<IF n = 12 /\ j = 12 THEN 11 ELSE j, j % 2>>])

GenExplainer(p, n, w) == [data |-> GenData(p, n), label |-> GenLabel(n), w |-> w]

Explainers ==
  {GenExplainer(p, n, w) : p \in Patterns, n \in SmallRowCounts, w \in Weights}
  \cup {GenExplainer(p, n, <<1, 1>>) : p \in LargePatterns, n \in LargeRowCounts}

(* The prediction adapter, predict(explainer, dataset, eval_times, type):  *)
(* one row (pred, times) per observation and evaluation time, observation  *)
(* by observation, the times in order within each observation.             *)
PredictValue(e, row, t, type) ==
  IF type = "chf"
  THEN RAdd(RAdd(RMul(R(e.w[1]), row[1]), RMul(R(e.w[2] * (t + 1)), row[2])),
            RMul(row[1], row[2]))
  ELSE RAdd(RMul(R(e.w[1] * (t + 1)), row[1]), RMul(R(e.w[2]), row[2]))

predict(e, df, eval_times, type) ==
  LET m == Len(eval_times)
  IN  Tuple([k \in 1..(Len(df) * m) |->
         LET i == ((k - 1) \div m) + 1
             t == eval_times[((k - 1) % m) + 1]
         IN  [pred |-> PredictValue(e, df[i], t, type), times |-> t]])

----------------------------------------------------------------------------
(* accumulated_local_effects_plots *)

NQt == 11
SliceStart == 10
SliceStep == 100

(* qt_list = np.arange(0., 1.01, 0.1): the levels 0/10, 1/10, ..., 10/10 *)
qt_list == Tuple([k \in 1..NQt |-> Rat(k - 1, 10)])

SortNumbers(a) ==
  Column(sort_values(Tuple([i \in 1..Len(a) |-> <<a[i]>>]), 1, "keep"), 1)

(* np.quantile(a, q), linear interpolation between the two order           *)
(* statistics around the virtual index q * (n - 1)                         *)
QuantileLerpDown(s, q) ==
  LET n == Len(s)
      num == q.n * (n - 1)
      lo == num \div q.d
      gamma == Rat(num % q.d, q.d)
      hi == IF lo + 1 < n THEN lo + 1 ELSE n - 1
  IN  RSub(s[lo + 1], RMul(gamma, RSub(s[hi + 1], s[lo + 1])))

QuantileOfSorted(s, q) ==
  LET n == Len(s)
      num == q.n * (n - 1)
      lo == num \div q.d
      gamma == Rat(num % q.d, q.d)
      hi == IF lo + 1 < n THEN lo + 1 ELSE n - 1
  IN  RAdd(s[lo + 1], RMul(gamma, RSub(s[hi + 1], s[lo + 1])))

NpQuantiles(a, levels) ==
  LET s == SortNumbers(a)
  IN  Tuple([k \in 1..Len(levels) |-> QuantileOfSorted(s, levels[k])])

(* np.abs(grid - v).argmin(): the first index (from 0) of the minimum *)
NpArgminAbs(grid, v) ==
  LET dist(k) == RAbs(RSub(grid[k], v))
      best == CHOOSE k \in DOMAIN grid :
                /\ \A j \in DOMAIN grid : RLe(dist(k), dist(j))
                /\ \A j \in 1..(k - 1) : RLt(dist(k), dist(j))
  IN  best - 1

Min(a, b) == IF a <= b THEN a ELSE b

BinIndex(grid, v) == Min(NpArgminAbs(grid, v), Len(qt_list) - 2)

(* np.tile in place of np.repeat: the index list as a whole, n_times times *)
GroupsTiled(idx, n_times) ==
  Tuple([j \in 1..(Len(idx) * n_times) |-> idx[((j - 1) % Len(idx)) + 1]])

(* line 183: groups = np.repeat(var_values_idx, n_times) *)
Groups(idx, n_times) == NpRepeat(idx, n_times)

(* the table explainer.data holds after line 161: the sort acted on a copy *)
ExplainerDataAfterSort(df, c, tie) == df

(* Lines 161-192 for an existing column.  The locals are kept for the      *)
(* properties stated of them.                                              *)
AleLocals(e, selected_features, type, tie) ==
  LET c == ColIdx(selected_features)
      data == sort_values(DeepCopy(e.data), c, tie)
      var_values == Column(data, c)
      grid_qt_values == NpQuantiles(var_values, qt_list)
      var_values_idx == Tuple([i \in 1..Len(var_values) |->
                                 BinIndex(grid_qt_values, var_values[i])])
      var_lower == Tuple([i \in 1..Len(var_values) |->
                            grid_qt_values[var_values_idx[i] + 1]])
      var_upper == Tuple([i \in 1..Len(var_values) |->
                            grid_qt_values[var_values_idx[i] + 2]])
      data_lower == SetColumn(DeepCopy(data), c, var_lower)
      data_upper == SetColumn(DeepCopy(data), c, var_upper)
      eval_times == Slice(NpUnique(Column(e.label, 1)), SliceStart, SliceStep)
  IN  [op |-> "ale", selected |-> c, type |-> type,
       data |-> data, var_values |-> var_values,
       grid_qt_values |-> grid_qt_values, var_values_idx |-> var_values_idx,
       var_lower |-> var_lower, var_upper |-> var_upper,
       data_lower |-> data_lower, data_upper |-> data_upper,
       eval_times |-> eval_times]

AleSupported(type) == type \in {"survival", "chf"}

(* Lines 182-192, from the locals and the two prediction tables *)
AleTable(L, lower_pred, upper_pred) ==
  LET n_times == Len(L.eval_times)
      groups == Groups(L.var_values_idx, n_times)
      diff_pred == Tuple([k \in 1..Len(upper_pred) |->
                      [pred |-> RSub(upper_pred[k].pred, lower_pred[k].pred),
                       times |-> upper_pred[k].times,
                       groups |-> groups[k]]])
      ALE_df == Project(GroupbyMean(diff_pred, "groups", "times"),
                        {"groups", "times", "pred"})
      group_values == NpRepeat(SubSeq(L.grid_qt_values, 1, Len(L.grid_qt_values) - 1),
                               n_times)
  IN  IF Len(group_values) # Len(ALE_df)
      THEN Raise("ValueError", "Length of values does not match length of index")
      ELSE Return(Tuple([k \in 1..Len(ALE_df) |->
                     [groups |-> ALE_df[k].groups, times |-> ALE_df[k].times,
                      pred |-> ALE_df[k].pred, group_values |-> group_values[k]]]))

AleTypes == {"survival", "chf", "risk"}
AleFeatures == {"x0", "x1", "age"}
Ties == {"keep", "flip"}

accumulated_local_effects_plots(selected_features, type, tie) ==
  /\ pc = "idle"
  /\ call' = [op |-> "accumulated_local_effects_plots",
              selected_features |-> selected_features, type |-> type]
  /\ IF ~HasColumn(selected_features)
     THEN /\ outcome' = Raise("KeyError", selected_features)
          /\ ale' = NoLocals
          /\ UNCHANGED explainer
     ELSE LET L == AleLocals(explainer, selected_features, type, tie)
          IN  /\ ale' = L
              /\ explainer' = [explainer EXCEPT !.data =
                    ExplainerDataAfterSort(explainer.data, L.selected, tie)]
              /\ outcome' =
                    IF AleSupported(type)
                    THEN AleTable(L,
                           predict(explainer, L.data_lower, L.eval_times, type),
                           predict(explainer, L.data_upper, L.eval_times, type))
                    ELSE Raise("ValueError", "Unsupported")
  /\ pc' = "done"
  /\ UNCHANGED <<feats, surv_labels, pfi, ICE_df>>

----------------------------------------------------------------------------
(* feature_interaction and functional_decomposition: the argument is any   *)
(* value at all, the explainer, None or an object without data and label.  *)

ExplainerArgs == {"explainer", "None", "malformed"}

UnsupportedReturnsEmpty(op, arg) == Return(<<>>)

Unsupported(op, arg) == Raise("ValueError", "Not supported yet")

feature_interaction(arg) ==
  /\ pc = "idle"
  /\ call' = [op |-> "feature_interaction", arg |-> arg]
  /\ outcome' = Unsupported("feature_interaction", arg)
  /\ pc' = "done"
  /\ UNCHANGED <<explainer, feats, surv_labels, ale, pfi, ICE_df>>

functional_decomposition(arg) ==
  /\ pc = "idle"
  /\ call' = [op |-> "functional_decomposition", arg |-> arg]
  /\ outcome' = Unsupported("functional_decomposition", arg)
  /\ pc' = "done"
  /\ UNCHANGED <<explainer, feats, surv_labels, ale, pfi, ICE_df>>

----------------------------------------------------------------------------

(* permutation_feature_importance *)

(* The performance evaluator, evaluate(explainer, feats, labels, times,    *)
(* "brier_score")["perf"].values: per evaluation time, the mean over the   *)
(* rows of the squared error of the predicted survival (here a step        *)
(* function, 1 while the row's score exceeds t) against "still alive at t".*)
Score(e, row) == RAdd(RMul(R(e.w[1]), row[1]), RMul(R(e.w[2]), row[2]))

evaluate(e, df, labels, times) ==
  Tuple([t \in 1..Len(times) |->
     Rat(Cardinality({i \in 1..Len(df) :
                        RLt(R(times[t]), Score(e, df[i])) # (labels[i][1] > times[t])}),
         Len(df))])

(* np.stack of a list of names, the times and the float ratios gives one   *)
(* array of strings: every number becomes its shortest decimal text, which *)
(* pd.to_numeric reads back to the same number ("inf" and "nan" included). *)
NpStr(x) == [str |-> x]
to_numeric(cell) == cell.str

(* np.random.shuffle(a): a is rearranged in place by a permutation *)
Shuffle(a, perm) == Tuple([i \in 1..Len(a) |-> a[perm[i]]])

NpZeros(n) == Tuple([t \in 1..n |-> R(0)])

CarryAccumulator(prev, n) == IF Len(prev) = n THEN prev ELSE NpZeros(n)

(* line 107: bs_perf_perm = np.zeros(n_eval_times), once per feature *)
NewAccumulator(prev, n) == NpZeros(n)

Accumulate(acc, n_perm, tmp) ==
  Tuple([t \in 1..Len(acc) |-> RAdd(acc[t], RMul(Rat(1, n_perm), tmp[t]))])

ShuffledInPlace(df, c, perm) == SetColumn(df, c, Shuffle(Column(df, c), perm))

(* the caller's table after lines 109-112: the shuffle acted on the values *)
(* of a deep copy                                                          *)
FeatsAfterShuffle(df, c, perm) == df

PfiLosses == {"brier_score", "c_index"}
PfiTypes == {"ratio", "difference"}
MaxNPerm == 2
MaxEvalTimes == 2

EvalTimes(m) == Tuple([t \in 1..m |-> t])

(* lines 98-107 of the first feature; with another loss nothing is built   *)
(* and line 123 reads a local that was never assigned                      *)
permutation_feature_importance(given, m, n_perm, loss, type) ==
  /\ pc = "idle"
  /\ feats # <<>>
  /\ call' = [op |-> "permutation_feature_importance", eval_times_given |-> given,
              eval_times |-> EvalTimes(m), n_perm |-> n_perm,
              loss |-> loss, type |-> type]
  /\ IF loss # "brier_score"
     THEN /\ outcome' = Raise("UnboundLocalError", "feat_importance_df")
          /\ pc' = "done"
          /\ pfi' = NoLocals
     ELSE IF ~given
     THEN /\ outcome' = Raise("TypeError", "object of type 'NoneType' has no len()")
          /\ pc' = "done"
          /\ pfi' = NoLocals
     ELSE /\ outcome' = NoOutcome
          /\ pc' = "pfi_loop"
          /\ pfi' = [op |-> "pfi",
                     bs_perf |-> evaluate(explainer, feats, surv_labels, EvalTimes(m)),
                     f |-> 1, k |-> 0,
                     bs_perf_perm |-> NewAccumulator(<<>>, m),
                     feat_importance_df |-> <<>>,
                     feats_perm_df |-> <<>>,
                     tmps |-> [c \in DOMAIN Features |-> <<>>]]
  /\ UNCHANGED <<explainer, feats, surv_labels, ale, ICE_df>>

(* lines 108-115: one repeat for the current feature *)
PfiPermute(perm) ==
  /\ pc = "pfi_loop"
  /\ pfi.f \in DOMAIN Features
  /\ pfi.k < call.n_perm
  /\ LET feat_perm == Shuffle(Column(DeepCopy(feats), pfi.f), perm)
         feats_perm_df == SetColumn(DeepCopy(feats), pfi.f, feat_perm)
         tmp == evaluate(explainer, feats_perm_df, surv_labels, call.eval_times)
     IN  pfi' = [pfi EXCEPT
                   !.k = @ + 1,
                   !.feats_perm_df = feats_perm_df,
                   !.bs_perf_perm = Accumulate(@, call.n_perm, tmp),
                   !.tmps[pfi.f] = Append(@, tmp)]
  /\ feats' = FeatsAfterShuffle(feats, pfi.f, perm)
  /\ UNCHANGED <<explainer, surv_labels, pc, call, outcome, ale, ICE_df>>

(* lines 117-121, then line 107 for the next feature *)
PfiFeatureDone ==
  /\ pc = "pfi_loop"
  /\ pfi.f \in DOMAIN Features
  /\ pfi.k >= call.n_perm
  /\ LET n_eval_times == Len(call.eval_times)
         importance_ratio ==
           Tuple([t \in 1..n_eval_times |-> NpDivide(pfi.bs_perf[t], pfi.bs_perf_perm[t])])
         additional_ratio ==
           Tuple([t \in 1..n_eval_times |->
              [feat |-> NpStr(Features[pfi.f]),
               times |-> NpStr(call.eval_times[t]),
               perf |-> NpStr(importance_ratio[t])]])
     IN  pfi' = [pfi EXCEPT
                   !.f = @ + 1,
                   !.k = 0,
                   !.bs_perf_perm = NewAccumulator(@, n_eval_times),
                   !.feat_importance_df =
                      IF call.type = "ratio" THEN @ \o additional_ratio ELSE @]
  /\ UNCHANGED <<explainer, feats, surv_labels, pc, call, outcome, ale, ICE_df>>

(* lines 123-125 *)
PfiReturn ==
  /\ pc = "pfi_loop"
  /\ pfi.f \notin DOMAIN Features
  /\ outcome' = Return(Tuple([r \in 1..Len(pfi.feat_importance_df) |->
                    [feat |-> pfi.feat_importance_df[r].feat.str,
                     times |-> to_numeric(pfi.feat_importance_df[r].times),
                     perf |-> to_numeric(pfi.feat_importance_df[r].perf)]]))
  /\ pc' = "done"
  /\ UNCHANGED <<explainer, feats, surv_labels, call, ale, pfi, ICE_df>>

----------------------------------------------------------------------------
(* partial_dependence_plots *)

(* The ICE generator returns a table (X, times, id, pred): any table of    *)
(* such rows, one per grid value, time and sampled observation it kept.    *)
MaxIceRows == 3
IceRows == [X : {1, 2}, times : {1, 2}, id : {R(0), R(1)}, pred : {R(0), R(3)}]
IceTables == UNION {[1..n -> IceRows] : n \in 0..MaxIceRows}

PdpTable(ice) == Project(GroupbyMean(ice, "X", "times"), {"X", "times", "pred"})

partial_dependence_plots(selected_features, ice) ==
  /\ pc = "idle"
  /\ call' = [op |-> "partial_dependence_plots",
              selected_features |-> selected_features]
  /\ ICE_df' = ice
  /\ outcome' = Return(PdpTable(ice))
  /\ pc' = "done"
  /\ UNCHANGED <<explainer, feats, surv_labels, ale, pfi>>

----------------------------------------------------------------------------

NoCall == [op |-> "none"]

MaxFeatRows == 2
FeatVals == {1, 2}
FeatsTables ==
  UNION {[1..n -> {<<R(a), R(b)>> : a \in FeatVals, b \in FeatVals}] :
           n \in 1..MaxFeatRows}
DefaultFeats == <<<<R(1), R(2)>>, <<R(2), R(1)>>>>
DefaultExplainer == GenExplainer("spread", 3, <<1, 1>>)

(* the labels of the rows of a feature table: observed at time i, event 1 *)
GenSurvLabels(df) == Tuple([i \in 1..Len(df) |-> <<i, 1>>])

Idle ==
  /\ pc = "idle"
  /\ call = NoCall
  /\ outcome = NoOutcome
  /\ ale = NoLocals
  /\ pfi = NoLocals
  /\ ICE_df = <<>>

Init ==
  /\ \/ explainer \in Explainers /\ feats = DefaultFeats
     \/ explainer = DefaultExplainer /\ feats \in FeatsTables
  /\ surv_labels = GenSurvLabels(feats)
  /\ Idle

Next ==
  \/ \E f \in AleFeatures, t \in AleTypes, tie \in Ties :
       accumulated_local_effects_plots(f, t, tie)
  \/ \E a \in ExplainerArgs : feature_interaction(a)
  \/ \E a \in ExplainerArgs : functional_decomposition(a)
  \/ \E given \in BOOLEAN, m \in 0..MaxEvalTimes, n_perm \in 0..MaxNPerm,
        loss \in PfiLosses, type \in PfiTypes :
       permutation_feature_importance(given, m, n_perm, loss, type)
  \/ \E perm \in Permutations(1..Len(feats)) : PfiPermute(perm)
  \/ PfiFeatureDone
  \/ PfiReturn

Spec == Init /\ [][Next]_vars

InitPDP ==
  /\ explainer = DefaultExplainer
  /\ feats = DefaultFeats
  /\ surv_labels = GenSurvLabels(feats)
  /\ Idle

NextPDP ==
  /\ pc = "idle"
  /\ \E ice \in IceTables : partial_dependence_plots("x0", ice)

SpecPDP == InitPDP /\ [][NextPDP]_vars

----------------------------------------------------------------------------
(* Properties *)

Stubs == {"feature_interaction", "functional_decomposition"}
PFI == "permutation_feature_importance"
ALE == "accumulated_local_effects_plots"
PDP == "partial_dependence_plots"

Mean(s) == RMul(RSum(s), Rat(1, Len(s)))

RECURSIVE SumPred(_, _)
SumPred(tbl, S) ==
  IF S = {} THEN R(0)
  ELSE LET i == CHOOSE j \in S : TRUE
       IN  RAdd(tbl[i].pred, SumPred(tbl, S \ {i}))

Count(a, v) == Cardinality({i \in DOMAIN a : a[i] = v})
IsPermutationOf(a, b) ==
  /\ Len(a) = Len(b)
  /\ \A i \in DOMAIN a : Count(a, a[i]) = Count(b, a[i])

AleMembers(g) == {i \in DOMAIN ale.var_values_idx : ale.var_values_idx[i] = g}

AleLocalEffect(i, t) ==
  RSub(PredictValue(explainer, ale.data_upper[i], t, call.type),
       PredictValue(explainer, ale.data_lower[i], t, call.type))

RECURSIVE SumLocalEffects(_, _)
SumLocalEffects(S, t) ==
  IF S = {} THEN R(0)
  ELSE LET i == CHOOSE j \in S : TRUE
       IN  RAdd(AleLocalEffect(i, t), SumLocalEffects(S \ {i}, t))

IceMembers(x, t) == {i \in DOMAIN ICE_df : ICE_df[i].X = x /\ ICE_df[i].times = t}

(* C1: a call of feature_interaction or functional_decomposition, whatever *)
(* its argument, ends by raising ValueError("Not supported yet"), returns  *)
(* no value and leaves the explainer as it was.                            *)
StubsRaiseUnsupported ==
  [][(call.op = "none" /\ call'.op \in Stubs) =>
       /\ pc' = "done"
       /\ outcome'.kind = "raise"
       /\ outcome'.exc = "ValueError"
       /\ outcome'.msg = "Not supported yet"
       /\ explainer' = explainer]_vars

StubsRaiseUnsupportedWitness ==
  /\ pc = "done"
  /\ call.op = "functional_decomposition"
  /\ call.arg = "None"
  /\ outcome.kind = "raise"

(* C2: a compute call with an enumerated parameter outside its supported   *)
(* set (ALE type not survival or chf on an existing column; PFI loss not   *)
(* brier_score or type not ratio) ends in an error and never returns a     *)
(* result table.                                                           *)
UnsupportedOptionsRejected ==
  (/\ pc = "done"
   /\ \/ call.op = ALE /\ HasColumn(call.selected_features)
         /\ ~AleSupported(call.type)
      \/ call.op = PFI /\ (call.loss # "brier_score" \/ call.type # "ratio"))
  => outcome.kind = "raise"

(* C3: with loss brier_score, type ratio, n_perm >= 1 and eval_times not   *)
(* empty, the table has one row per (feature, time), and the row of (f, t) *)
(* has perf = L_base[t] / L_perm[f, t], L_base the loss on the untouched   *)
(* table and L_perm[f, t] the mean of the losses of the n_perm repeats     *)
(* made for f, each the loss on a copy in which only column f is shuffled. *)
PfiRatioOfBaseToMeanPermuted ==
  /\ (pc = "pfi_loop" /\ pfi.k >= 1) =>
        /\ \A c \in DOMAIN Features :
              IF c = pfi.f
              THEN IsPermutationOf(Column(pfi.feats_perm_df, c), Column(feats, c))
              ELSE Column(pfi.feats_perm_df, c) = Column(feats, c)
        /\ pfi.tmps[pfi.f][pfi.k] =
              evaluate(explainer, pfi.feats_perm_df, surv_labels, call.eval_times)
  /\ (/\ pc = "done" /\ call.op = PFI /\ outcome.kind = "return"
      /\ call.type = "ratio" /\ call.n_perm >= 1 /\ Len(call.eval_times) >= 1) =>
        LET tbl == outcome.value
            n_t == Len(call.eval_times)
            L_base == evaluate(explainer, feats, surv_labels, call.eval_times)
        IN  /\ Len(tbl) = Len(Features) * n_t
            /\ \A c \in DOMAIN Features, t \in 1..n_t :
                  LET r == tbl[(c - 1) * n_t + t]
                      L_perm == Mean([k \in 1..call.n_perm |-> pfi.tmps[c][k][t]])
                  IN  /\ r.feat = Features[c]
                      /\ r.times = call.eval_times[t]
                      /\ Len(pfi.tmps[c]) = call.n_perm
                      /\ r.perf = NpDivide(L_base[t], L_perm)

PfiRatioOfBaseToMeanPermutedWitness ==
  /\ pc = "done" /\ call.op = PFI /\ outcome.kind = "return"
  /\ call.type = "ratio" /\ call.n_perm = 2 /\ Len(call.eval_times) = 2
  /\ Len(outcome.value) = 4
  /\ \E c \in DOMAIN Features :
        /\ pfi.tmps[c][1] # pfi.tmps[c][2]
        /\ \E r \in DOMAIN outcome.value :
              /\ outcome.value[r].feat = Features[c]
              /\ IsFinite(outcome.value[r].perf)
              /\ outcome.value[r].perf \notin {R(0), R(1)}

(* C9: no row of the table returned with loss brier_score and type ratio,  *)
(* for a non-empty feature table and eval_times, has an undefined perf.    *)
PfiPerfDefined ==
  (/\ pc = "done" /\ call.op = PFI /\ outcome.kind = "return"
   /\ call.type = "ratio" /\ Len(call.eval_times) >= 1 /\ feats # <<>>)
  => \A r \in DOMAIN outcome.value : IsFinite(outcome.value[r].perf)

(* C7: no step of permutation_feature_importance changes the feature table *)
(* passed in, and no call of accumulated_local_effects_plots changes       *)
(* explainer.data, whether the call returns or fails.                      *)
CallerDataUnaltered ==
  [][feats' = feats /\ explainer' = explainer]_vars

CallerDataUnalteredWitness ==
  /\ pc = "pfi_loop"
  /\ pfi.k >= 1
  /\ pfi.feats_perm_df # feats

(* C4: a call of accumulated_local_effects_plots with a supported type (on *)
(* an existing column) returns a table of 10 * n_eval_times rows, and each *)
(* row of bin index i carries breakpoint i as group_values.                *)
AleTenRowsPerTime ==
  (pc = "done" /\ call.op = ALE /\ HasColumn(call.selected_features)
   /\ AleSupported(call.type))
  => /\ outcome.kind = "return"
     /\ Len(outcome.value) = 10 * Len(ale.eval_times)
     /\ \A k \in DOMAIN outcome.value :
           outcome.value[k].group_values =
             ale.grid_qt_values[outcome.value[k].groups + 1]

(* C5: there are 11 breakpoints, every observation's bin index is in 0..9, *)
(* its var_lower and var_upper are the breakpoints at that index and the   *)
(* next, and var_lower <= var_upper.                                       *)
AleBinIndexInRange ==
  ale.op = "ale" =>
    /\ Len(ale.grid_qt_values) = 11
    /\ \A i \in DOMAIN ale.var_values_idx :
          /\ ale.var_values_idx[i] \in 0..9
          /\ ale.var_lower[i] = ale.grid_qt_values[ale.var_values_idx[i] + 1]
          /\ ale.var_upper[i] = ale.grid_qt_values[ale.var_values_idx[i] + 2]
          /\ RLe(ale.var_lower[i], ale.var_upper[i])

AleBinIndexInRangeWitness ==
  /\ ale.op = "ale"
  /\ \E i \in DOMAIN ale.var_values_idx :
        /\ NpArgminAbs(ale.grid_qt_values, ale.var_values[i]) = 10
        /\ ale.var_values_idx[i] = 9
  /\ \E i \in DOMAIN ale.var_values_idx :
        /\ ale.var_values_idx[i] = 0
        /\ RLt(ale.var_lower[i], ale.var_upper[i])

(* C10: every observation's own value lies in its bin,                     *)
(* var_lower <= value <= var_upper.                                        *)
AleValueInsideBin ==
  ale.op = "ale" =>
    \A i \in DOMAIN ale.var_values :
      /\ RLe(ale.var_lower[i], ale.var_values[i])
      /\ RLe(ale.var_values[i], ale.var_upper[i])

(* C8: in the returned table the pred of the row of (bin g, time t) is the *)
(* mean, over exactly the observations assigned to bin g, of the upper     *)
(* copy's prediction minus the lower copy's at t; every such pair of a     *)
(* non-empty bin and an evaluation time has its row.                       *)
AleRowIsBinMean ==
  (pc = "done" /\ call.op = ALE /\ outcome.kind = "return") =>
    /\ \A k \in DOMAIN outcome.value :
          LET r == outcome.value[k]
              members == AleMembers(r.groups)
          IN  /\ members # {}
              /\ \E p \in DOMAIN ale.eval_times : ale.eval_times[p] = r.times
              /\ RMul(r.pred, R(Cardinality(members))) = SumLocalEffects(members, r.times)
    /\ \A i \in DOMAIN ale.var_values_idx, p \in DOMAIN ale.eval_times :
          Cardinality({k \in DOMAIN outcome.value :
                         /\ outcome.value[k].groups = ale.var_values_idx[i]
                         /\ outcome.value[k].times = ale.eval_times[p]}) = 1

AleRowIsBinMeanWitness ==
  /\ pc = "done" /\ call.op = ALE /\ outcome.kind = "return"
  /\ Len(ale.eval_times) = 2
  /\ Len(outcome.value) = 20
  /\ \E k, j \in DOMAIN outcome.value :
        /\ Cardinality(AleMembers(outcome.value[k].groups)) >= 2
        /\ outcome.value[k].groups = outcome.value[j].groups
        /\ outcome.value[k].pred # outcome.value[j].pred

(* C6: the PDP table has exactly one row per (X, times) pair of the ICE    *)
(* table, with the columns X, times and pred, and the row's pred is the    *)
(* unweighted mean of the pred of the ICE rows of that pair.               *)
PdpRowIsGroupMean ==
  (pc = "done" /\ call.op = PDP) =>
    /\ outcome.kind = "return"
    /\ LET tbl == outcome.value
       IN  /\ {<<tbl[k].X, tbl[k].times>> : k \in DOMAIN tbl}
                = {<<ICE_df[i].X, ICE_df[i].times>> : i \in DOMAIN ICE_df}
           /\ \A k, j \in DOMAIN tbl :
                 (tbl[k].X = tbl[j].X /\ tbl[k].times = tbl[j].times) => k = j
           /\ \A k \in DOMAIN tbl :
                 LET members == IceMembers(tbl[k].X, tbl[k].times)
                 IN  /\ DOMAIN tbl[k] = {"X", "times", "pred"}
                     /\ RMul(tbl[k].pred, R(Cardinality(members)))
                          = SumPred(ICE_df, members)

PdpRowIsGroupMeanWitness ==
  /\ pc = "done" /\ call.op = PDP /\ outcome.kind = "return"
  /\ Len(outcome.value) = 2
  /\ \E k \in DOMAIN outcome.value :
        /\ outcome.value[k].pred = Rat(3, 2)
        /\ \E i, j \in IceMembers(outcome.value[k].X, outcome.value[k].times) :
              ICE_df[i].id # ICE_df[j].id

====
